---- MODULE Spec2Model ----
(***************************************************************************)
(* Library management system: the transaction lifecycle (issue, return,    *)
(* renew, overdue sweep) and the book inventory counters, as implemented   *)
(* by the Express route handlers, the Mongoose models and the automation   *)
(* service.                                                                *)
(*                                                                         *)
(* Time is counted in ticks; a day is TicksPerDay ticks, so that the       *)
(* Math.ceil of a lateness that is not a whole number of days differs from *)
(* its floor.  Book.lastBorrowed, titles and the other descriptive fields  *)
(* are write-only for the lifecycle and are not part of the state.         *)
(***************************************************************************)
EXTENDS Integers, Sequences, FiniteSets, TLC

\* ---------------------------------------------------------------- bounds
MaxTx == 2          \* transactions ever created
MaxCopies == 2      \* largest totalCopies a request body carries
MaxPeriods == 2     \* the clock runs for this many loan periods
TicksPerDay == 2    \* clock resolution
MaxInFlight == 2    \* requests handled concurrently
MaxLoans == 6       \* transactions ever created for the member at the limit
ShortPeriods == 1   \* loan periods the clock runs for in the larger scenarios
MaxIssued == 2      \* email tokens ever issued to one user
MaxOtp == 2         \* distinct values generateOTP() returns
MaxVerifyNow == 3   \* ticks the clock runs for while accounts are verified

\* ------------------------------------------------------ program constants
LoanDays == 14      \* 14 * 24 * 60 * 60 * 1000 ms
MaxRenewals == 3
FinePerDay == 1
BorrowLimit == 5
EmailTokenDays == 1 \* 24 * 60 * 60 * 1000 ms
OtpTicks == 1       \* 10 * 60 * 1000 ms: under a tick, over by the next one
Null == -1          \* returnDate: null
Undef == -2         \* a field a projection did not select: undefined

LoanPeriod == LoanDays * TicksPerDay
MaxNow == MaxPeriods * LoanPeriod + MaxPeriods
Slots == 1..MaxInFlight

BookOrder == <<"b1">>         \* Book _ids in the order they are handed out
BookIds == {BookOrder[i] : i \in 1..Len(BookOrder)}
UserIds == {"u1", "u2"}
GhostId == "none"   \* a well-formed id that names no document

\* req.user.role of the authenticated actor
Role(u) == IF u = "u1" THEN "admin" ELSE "member"

VARIABLES
  books,    \* Book collection: BookIds -> document (exists = FALSE: no document)
  txs,      \* Transaction collection: sequence of documents, _id = index
  now,      \* the clock (Date.now())
  procs,    \* requests in flight: slot -> the handler's position and locals
  users     \* User collection: UserIds -> document

vars == <<books, txs, now, procs, users>>

NoBook ==
  [exists |-> FALSE, totalCopies |-> 0, availableCopies |-> 0,
   borrowCount |-> 0, isActive |-> FALSE]

TxIds == 1..Len(txs)

\* ------------------------------------------------------------ JavaScript
\* a < b on numbers where either side may be undefined (NaN compares false)
JsLt(a, b) == a # Undef /\ b # Undef /\ a < b

\* Math.ceil(ms / (1000 * 60 * 60 * 24)) for ms >= 0 or ms < 0
CeilDays(t) == IF t >= 0 THEN (t + TicksPerDay - 1) \div TicksPerDay
               ELSE -((-t) \div TicksPerDay)

\* Math.max(0, x)
Max0(x) == IF x > 0 THEN x ELSE 0

\* ------------------------------------------------------------ Book model
\* bookSchema.pre('save'): available copies never exceed total copies
BookPreSave(b) ==
  IF JsLt(b.totalCopies, b.availableCopies)
  THEN [b EXCEPT !.availableCopies = b.totalCopies] ELSE b

\* schema validators of the inventory fields (min/max)
BookValid(b) ==
  /\ b.totalCopies >= 1 /\ b.totalCopies <= 1000
  /\ b.availableCopies >= 0

canBorrow(b) == b.isActive /\ JsLt(0, b.availableCopies)

\* bookSchema.methods.borrowBook: the document after the in-memory update and
\* the pre-save hook; ok = FALSE when it throws
BookBorrowBook(b) ==
  IF canBorrow(b)
  THEN [ok |-> TRUE,
        doc |-> BookPreSave([b EXCEPT !.availableCopies = b.availableCopies - 1,
                                      !.borrowCount = b.borrowCount + 1])]
  ELSE [ok |-> FALSE, doc |-> b]

\* bookSchema.methods.returnBook
BookReturnBook(b) ==
  IF JsLt(b.availableCopies, b.totalCopies)
  THEN [ok |-> TRUE,
        doc |-> BookPreSave([b EXCEPT !.availableCopies = b.availableCopies + 1])]
  ELSE [ok |-> FALSE, doc |-> b]

\* ----------------------------------------------------- Transaction model
\* new Transaction({user, book, type: 'borrow', dueDate, processedBy})
NewTransaction(u, b, due, t) ==
  [user |-> u, book |-> b, borrowDate |-> t, dueDate |-> due,
   returnDate |-> Null, status |-> "active", fineAmount |-> 0,
   renewalCount |-> 0]

\* pre('save') #1: a new borrow is due 14 days after its borrow date
TxPreSaveDueDate(d, isNew) ==
  IF isNew THEN [d EXCEPT !.dueDate = d.borrowDate + LoanPeriod] ELSE d

\* a status hook that does nothing
TxPreSaveStatus_Off(d, t) == d

\* pre('save') #2: an active document past its due date becomes overdue
TxPreSaveStatus(d, t) ==
  IF d.status = "active" /\ d.dueDate < t /\ d.returnDate = Null
  THEN [d EXCEPT !.status = "overdue"] ELSE d

TxPreSave(d, isNew, t) == TxPreSaveStatus(TxPreSaveDueDate(d, isNew), t)

\* schema validators run by save()
TxValid(d) == d.fineAmount >= 0 /\ d.renewalCount <= MaxRenewals

calculateFine(d, t) ==
  IF d.status = "overdue"
  THEN [d EXCEPT !.fineAmount = CeilDays(t - d.dueDate) * FinePerDay]
  ELSE d

\* renewBook without its status check
TxRenewBook_NoStatusCheck(d) ==
  IF d.renewalCount >= MaxRenewals THEN [ok |-> FALSE, doc |-> d]
  ELSE [ok |-> TRUE,
        doc |-> [d EXCEPT !.renewalCount = d.renewalCount + 1,
                          !.dueDate = d.dueDate + LoanPeriod,
                          !.status = "renewed"]]

\* renewBook that leaves the due date where it was
TxRenewBook_KeepsDue(d) ==
  IF d.renewalCount >= MaxRenewals THEN [ok |-> FALSE, doc |-> d]
  ELSE IF d.status # "active" THEN [ok |-> FALSE, doc |-> d]
  ELSE [ok |-> TRUE,
        doc |-> [d EXCEPT !.renewalCount = d.renewalCount + 1,
                          !.status = "renewed"]]

\* transactionSchema.methods.renewBook: in-memory update, ok = FALSE on throw
TxRenewBook(d) ==
  IF d.renewalCount >= MaxRenewals THEN [ok |-> FALSE, doc |-> d]
  ELSE IF d.status # "active" THEN [ok |-> FALSE, doc |-> d]
  ELSE [ok |-> TRUE,
        doc |-> [d EXCEPT !.renewalCount = d.renewalCount + 1,
                          !.dueDate = d.dueDate + LoanPeriod,
                          !.status = "renewed"]]

\* returnBook that forgets the return date
TxReturnBook_NoDate(d, t) ==
  IF d.status = "returned" THEN [ok |-> FALSE, doc |-> d]
  ELSE [ok |-> TRUE, doc |-> calculateFine([d EXCEPT !.status = "returned"], t)]

\* transactionSchema.methods.returnBook: in-memory update, ok = FALSE on throw
TxReturnBook(d, t) ==
  IF d.status = "returned" THEN [ok |-> FALSE, doc |-> d]
  ELSE [ok |-> TRUE,
        doc |-> calculateFine([d EXCEPT !.returnDate = t,
                                        !.status = "returned"], t)]

\* Transaction.findOverdue(): ids of the matching documents
findOverdue(T, t) ==
  {i \in 1..Len(T) : T[i].status = "active" /\ T[i].dueDate < t}

\* an overdue query that finds nothing
UserOverdue_None(T, u) == {}

\* Transaction.find({user, status: 'overdue'})
UserOverdue(T, u) ==
  {i \in 1..Len(T) : T[i].user = u /\ T[i].status = "overdue"}

\* a query for the user's overdue transactions only
findUserActiveTransactions_OverdueOnly(T, u) ==
  {i \in 1..Len(T) : T[i].user = u /\ T[i].status = "overdue"}

\* Transaction.find({user, status: {$in: ['active', 'overdue']}})
findUserActiveTransactions(T, u) ==
  {i \in 1..Len(T) : T[i].user = u /\ T[i].status \in {"active", "overdue"}}

\* Transaction.find({book, status: {$in: ['active', 'overdue']}})
findBookActiveTransactions(T, b) ==
  {i \in 1..Len(T) : T[i].book = b /\ T[i].status \in {"active", "overdue"}}

\* .populate('book', 'title author isbn'): only the selected fields are loaded
PopulateBookSelected(b) ==
  [b EXCEPT !.totalCopies = Undef, !.availableCopies = Undef,
            !.borrowCount = Undef]

\* ------------------------------------------------------------- Mongoose
\* document.save(): only the paths modified since the document was loaded
\* (orig) are written, by _id, over whatever the collection holds now (db)
Save(db, orig, doc) ==
  [f \in DOMAIN db |-> IF orig[f] # doc[f] THEN doc[f] ELSE db[f]]

\* Book.findById(id)
FindBook(B, id) == IF id \in BookIds THEN B[id] ELSE NoBook

\* what a handler leaves behind: the collections and the response
Out(B, T, code, msg) ==
  [books |-> B, txs |-> T, code |-> code, msg |-> msg]

\* --------------------------------------------------------- POST /issue
IssueResult(B, T, t, actor, bookId, userId, reqDue) ==
  LET book == FindBook(B, bookId)
      borrowed == BookBorrowBook(book)
      B2 == [B EXCEPT ![bookId] = Save(B[bookId], book, borrowed.doc)]
      doc == NewTransaction(userId, bookId,
                            IF reqDue # Undef THEN reqDue ELSE t + LoanPeriod, t)
      saved == TxPreSave(doc, TRUE, t)
  IN
  IF Role(actor) # "admin" THEN Out(B, T, 403, "forbidden")
  ELSE IF ~book.exists THEN Out(B, T, 404, "book_not_found")
  ELSE IF userId \notin UserIds
    THEN Out(B, T, 404, "user_not_found")
  ELSE IF ~canBorrow(book)
    THEN Out(B, T, 400, "not_available")
  ELSE IF UserOverdue(T, userId) # {}
    THEN Out(B, T, 400, "has_overdue")
  ELSE IF Cardinality(findUserActiveTransactions(T, userId)) >= BorrowLimit
    THEN Out(B, T, 400, "limit_reached")
  ELSE IF ~borrowed.ok \/ ~BookValid(borrowed.doc)
    THEN Out(B, T, 500, "error")
  ELSE IF ~TxValid(saved)
    THEN Out(B2, T, 500, "error")
  ELSE Out(B2, Append(T, saved), 201, "issued")

\* -------------------------------------------------------- POST /return
ReturnResult(B, T, t, actor, txId) ==
  LET tx == T[txId]
      ret == TxReturnBook(tx, t)
      saved == TxPreSave(ret.doc, FALSE, t)
      T2 == [T EXCEPT ![txId] = Save(T[txId], tx, saved)]
      book == PopulateBookSelected(B[tx.book])
      back == BookReturnBook(book)
      B2 == [B EXCEPT ![tx.book] = Save(B[tx.book], book, back.doc)]
  IN
  IF Role(actor) # "admin" THEN Out(B, T, 403, "forbidden")
  ELSE IF txId \notin 1..Len(T)
    THEN Out(B, T, 404, "tx_not_found")
  ELSE IF tx.status = "returned"
    THEN Out(B, T, 400, "already_returned")
  ELSE IF ~ret.ok \/ ~TxValid(saved)
    THEN Out(B, T, 500, "error")
  ELSE IF ~back.ok
    THEN Out(B, T2, 500, "error")
  ELSE Out(B2, T2, 200, "returned")

\* POST /renew without its owner-or-admin check
RenewResult_NoOwnerCheck(B, T, t, actor, txId) ==
  LET tx == T[txId]
      ren == TxRenewBook(tx)
      saved == TxPreSave(ren.doc, FALSE, t)
      T2 == [T EXCEPT ![txId] = Save(T[txId], tx, saved)]
  IN
  IF txId \notin 1..Len(T)
    THEN Out(B, T, 404, "tx_not_found")
  ELSE IF ~ren.ok \/ ~TxValid(saved)
    THEN Out(B, T, 500, "error")
  ELSE Out(B, T2, 200, "renewed")

\* --------------------------------------------------------- POST /renew
RenewResult(B, T, t, actor, txId) ==
  LET tx == T[txId]
      ren == TxRenewBook(tx)
      saved == TxPreSave(ren.doc, FALSE, t)
      T2 == [T EXCEPT ![txId] = Save(T[txId], tx, saved)]
  IN
  IF txId \notin 1..Len(T)
    THEN Out(B, T, 404, "tx_not_found")
  ELSE IF actor # tx.user /\ Role(actor) # "admin"
    THEN Out(B, T, 403, "forbidden")
  ELSE IF ~ren.ok \/ ~TxValid(saved)
    THEN Out(B, T, 500, "error")
  ELSE Out(B, T2, 200, "renewed")

\* ------------------------------------- AutomationService.checkOverdueBooks
\* one item of the loop: calculateFine() then save()
SweepItem(d, t) == Save(d, d, TxPreSave(calculateFine(d, t), FALSE, t))

checkOverdueBooks(T, t) ==
  [i \in 1..Len(T) |-> IF i \in findOverdue(T, t) THEN SweepItem(T[i], t) ELSE T[i]]

\* the transactions a run emits a 'bookOverdue' event for (this.io is set):
\* one event per document found
bookOverdueEvents(T, t) == findOverdue(T, t)

\* AutomationService.sendOverdueNotifications: the transactions a run sends
\* an overdue email and SMS for
sendOverdueNotifications(T, t) == findOverdue(T, t)

\* ------------------------------------------------------- POST /books
CreateBookResult(B, T, actor, id, total) ==
  LET doc == BookPreSave([exists |-> TRUE, totalCopies |-> total,
                          availableCopies |-> total, borrowCount |-> 0,
                          isActive |-> TRUE])
  IN
  IF ~(total >= 1 /\ total <= 1000)
    THEN Out(B, T, 400, "validation")
  ELSE IF Role(actor) # "admin"
    THEN Out(B, T, 403, "forbidden")
  ELSE IF ~BookValid(doc) THEN Out(B, T, 500, "error")
  ELSE Out([B EXCEPT ![id] = doc], T, 201, "created")

\* ---------------------------------------------------- PUT /books/:id
\* the body's totalCopies and availableCopies (Undef: the field is absent);
\* Book.findByIdAndUpdate(id, updateData, {runValidators: true}) runs the
\* validators of the fields it sets and no save hook
UpdateBookResult(B, T, actor, id, bodyTotal, bodyAvail) ==
  LET book == FindBook(B, id)
      avail == IF bodyTotal # Undef
               THEN Max0(book.availableCopies + (bodyTotal - book.totalCopies))
               ELSE bodyAvail
      doc == [book EXCEPT
                !.totalCopies = IF bodyTotal # Undef THEN bodyTotal ELSE @,
                !.availableCopies = IF avail # Undef THEN avail ELSE @]
  IN
  IF bodyTotal # Undef /\ ~(bodyTotal >= 1 /\ bodyTotal <= 1000)
    THEN Out(B, T, 400, "validation")
  ELSE IF Role(actor) # "admin"
    THEN Out(B, T, 403, "forbidden")
  ELSE IF ~book.exists
    THEN Out(B, T, 404, "book_not_found")
  ELSE IF ~BookValid(doc) THEN Out(B, T, 500, "error")
  ELSE Out([B EXCEPT ![id] = doc], T, 200, "updated")

\* ------------------------------------------------- DELETE /books/:id
DeleteBookResult(B, T, actor, id) ==
  LET book == FindBook(B, id)
      doc == BookPreSave([book EXCEPT !.isActive = FALSE])
  IN
  IF Role(actor) # "admin" THEN Out(B, T, 403, "forbidden")
  ELSE IF ~book.exists
    THEN Out(B, T, 404, "book_not_found")
  ELSE IF findBookActiveTransactions(T, id) # {}
    THEN Out(B, T, 400, "has_active")
  ELSE IF ~BookValid(doc) THEN Out(B, T, 500, "error")
  ELSE Out([B EXCEPT ![id] = Save(B[id], book, doc)], T, 200, "deleted")

\* ------------------------------------------------- accounts, verification
\* crypto.randomBytes(32).toString('hex'): a value no user was ever given;
\* issued counts the email tokens user u has been given so far
UserNo(u) == IF u = "u1" THEN 1 ELSE 2

FreshEmailToken(u, issued) == UserNo(u) * (MaxIssued + 1) + issued

\* generateOTP(): one of a few values, repeats allowed
OtpValues == 1..MaxOtp

\* POST /register at time t: new User({...}) with both tokens and expiries
RegisteredUser(u, t) ==
  [isActive |-> TRUE,
   isEmailVerified |-> FALSE,
   emailVerificationToken |-> FreshEmailToken(u, 0),
   emailVerificationExpires |-> t + EmailTokenDays * TicksPerDay,
   isPhoneVerified |-> FALSE,
   phoneVerificationToken |-> 1,
   phoneVerificationExpires |-> t + OtpTicks,
   issued |-> 1]

\* {$gt: Date.now()} / {$lt: now} on a field that may be unset
JsGt(a, b) == a # Undef /\ b # Undef /\ a > b

\* what an account handler leaves behind
OutU(U, code, user) == [users |-> U, code |-> code, user |-> user]

\* verify-email that does not look at the expiry
VerifyEmailResult_NoExpiry(U, t, token) ==
  LET match == {u \in UserIds : U[u].emailVerificationToken = token}
      u == CHOOSE x \in match : \A y \in match : UserNo(x) <= UserNo(y)
      doc == [U[u] EXCEPT !.isEmailVerified = TRUE,
                          !.emailVerificationToken = Undef,
                          !.emailVerificationExpires = Undef]
  IN
  IF match = {} THEN OutU(U, 400, GhostId)
  ELSE OutU([U EXCEPT ![u] = Save(U[u], U[u], doc)], 200, u)

\* POST /verify-email: User.findOne({emailVerificationToken: token,
\* emailVerificationExpires: {$gt: Date.now()}}), first match
VerifyEmailResult(U, t, token) ==
  LET match == {u \in UserIds :
                  /\ U[u].emailVerificationToken = token
                  /\ JsGt(U[u].emailVerificationExpires, t)}
      u == CHOOSE x \in match : \A y \in match : UserNo(x) <= UserNo(y)
      doc == [U[u] EXCEPT !.isEmailVerified = TRUE,
                          !.emailVerificationToken = Undef,
                          !.emailVerificationExpires = Undef]
  IN
  IF match = {} THEN OutU(U, 400, GhostId)
  ELSE OutU([U EXCEPT ![u] = Save(U[u], U[u], doc)], 200, u)

\* POST /verify-phone: User.findOne({phone, phoneVerificationToken: otp,
\* phoneVerificationExpires: {$gt: Date.now()}}); phone names the user
VerifyPhoneResult(U, t, phone, otp) ==
  LET match == {u \in UserIds :
                  /\ u = phone
                  /\ U[u].phoneVerificationToken = otp
                  /\ JsGt(U[u].phoneVerificationExpires, t)}
      u == CHOOSE x \in match : TRUE
      doc == [U[u] EXCEPT !.isPhoneVerified = TRUE,
                          !.phoneVerificationToken = Undef,
                          !.phoneVerificationExpires = Undef]
  IN
  IF match = {} THEN OutU(U, 400, GhostId)
  ELSE OutU([U EXCEPT ![u] = Save(U[u], U[u], doc)], 200, u)

\* POST /resend-email-verification; email names the user
ResendEmailResult(U, t, email) ==
  LET user == U[email]
      doc == [user EXCEPT
                !.emailVerificationToken = FreshEmailToken(email, user.issued),
                !.emailVerificationExpires = t + EmailTokenDays * TicksPerDay,
                !.issued = user.issued + 1]
  IN
  IF email \notin UserIds THEN OutU(U, 404, GhostId)
  ELSE IF user.isEmailVerified THEN OutU(U, 400, email)
  ELSE OutU([U EXCEPT ![email] = Save(U[email], user, doc)], 200, email)

\* POST /resend-phone-verification; otp is what generateOTP() returns
ResendPhoneResult(U, t, phone, otp) ==
  LET user == U[phone]
      doc == [user EXCEPT !.phoneVerificationToken = otp,
                          !.phoneVerificationExpires = t + OtpTicks]
  IN
  IF phone \notin UserIds THEN OutU(U, 404, GhostId)
  ELSE IF user.isPhoneVerified THEN OutU(U, 400, phone)
  ELSE OutU([U EXCEPT ![phone] = Save(U[phone], user, doc)], 200, phone)

\* AutomationService.cleanupExpiredTokens: the two updateMany on the
\* verification tokens
cleanupExpiredTokens(U, t) ==
  [u \in UserIds |->
     LET e == IF JsLt(U[u].emailVerificationExpires, t) /\ ~U[u].isEmailVerified
              THEN [U[u] EXCEPT !.emailVerificationToken = Undef,
                                !.emailVerificationExpires = Undef]
              ELSE U[u]
     IN IF JsLt(e.phoneVerificationExpires, t) /\ ~e.isPhoneVerified
        THEN [e EXCEPT !.phoneVerificationToken = Undef,
                       !.phoneVerificationExpires = Undef]
        ELSE e]

\* ---------------------------------------------------------------- state
\* a slot with no request in it
Idle == [pc |-> "idle"]

Init ==
  /\ books = [b \in BookIds |-> NoBook]
  /\ txs = <<>>
  /\ now = 0
  /\ procs = [p \in Slots |-> Idle]
  /\ users = [u \in UserIds |-> RegisteredUser(u, 0)]

\* a handler ran to its response r, with at most cap transactions stored
HandledUpTo(r, cap) ==
  /\ Len(r.txs) <= cap
  /\ books' = r.books
  /\ txs' = r.txs
  /\ UNCHANGED <<now, procs, users>>

Handled(r) == HandledUpTo(r, MaxTx)

\* the _id of the next Book document
NextBookId ==
  BookOrder[CHOOSE i \in 1..Len(BookOrder) :
              /\ ~books[BookOrder[i]].exists
              /\ \A j \in 1..(i - 1) : books[BookOrder[j]].exists]

CreateBookStep(actor, total) ==
  /\ \E id \in BookIds : ~books[id].exists
  /\ Handled(CreateBookResult(books, txs, actor, NextBookId, total))

UpdateBookStep(actor, id, bodyTotal, bodyAvail) ==
  Handled(UpdateBookResult(books, txs, actor, id, bodyTotal, bodyAvail))

DeleteBookStep(actor, id) ==
  Handled(DeleteBookResult(books, txs, actor, id))

IssueStep(actor, bookId, userId, reqDue) ==
  Handled(IssueResult(books, txs, now, actor, bookId, userId, reqDue))

ReturnStep(actor, txId) ==
  Handled(ReturnResult(books, txs, now, actor, txId))

RenewStep(actor, txId) ==
  Handled(RenewResult(books, txs, now, actor, txId))

\* the request bodies' values
BodyTotals == {Undef} \cup 0..MaxCopies
BodyAvails == {Undef} \cup (-1)..(MaxCopies + 1)
BodyDues == {Undef, now + TicksPerDay}

\* A request that is refused before a part of it is read is sent with that
\* part blank: one such request stands for all of them.
CreateBook ==
  \E actor \in UserIds, total \in 0..MaxCopies : CreateBookStep(actor, total)

UpdateBook ==
  \E actor \in UserIds, id \in BookIds \cup {GhostId},
     bodyTotal \in BodyTotals, bodyAvail \in BodyAvails :
    \* a body that carries totalCopies has its availableCopies overwritten
    /\ bodyTotal = Undef \/ bodyAvail = Undef
    /\ Role(actor) # "admin" => id = GhostId
    /\ id = GhostId => bodyTotal = Undef /\ bodyAvail = Undef
    /\ UpdateBookStep(actor, id, bodyTotal, bodyAvail)

DeleteBook ==
  \E actor \in UserIds, id \in BookIds \cup {GhostId} :
    /\ Role(actor) # "admin" => id = GhostId
    /\ DeleteBookStep(actor, id)

Issue ==
  \E actor \in UserIds, bookId \in BookIds \cup {GhostId},
     userId \in UserIds \cup {GhostId}, reqDue \in BodyDues :
    /\ Role(actor) # "admin" => bookId = GhostId
    /\ bookId = GhostId => userId = GhostId
    /\ userId = GhostId => reqDue = Undef
    /\ IssueStep(actor, bookId, userId, reqDue)

Return ==
  \E actor \in UserIds, txId \in 1..(MaxTx + 1) :
    /\ Role(actor) # "admin" => txId = MaxTx + 1
    /\ ReturnStep(actor, txId)

Renew ==
  \E actor \in UserIds, txId \in 1..(MaxTx + 1) : RenewStep(actor, txId)

Sweep ==
  /\ txs' = checkOverdueBooks(txs, now)
  /\ UNCHANGED <<books, now, procs, users>>

\* time passes: a loan period and one tick
Advance ==
  /\ now + LoanPeriod + 1 <= MaxNow
  /\ now' = now + LoanPeriod + 1
  /\ UNCHANGED <<books, txs, procs, users>>

\* time passes, in a scenario whose clock stops after ShortPeriods periods
AdvanceShort ==
  /\ now + LoanPeriod + 1 <= ShortPeriods * (LoanPeriod + 1)
  /\ Advance

Next ==
  \/ CreateBook
  \/ UpdateBook
  \/ DeleteBook
  \/ Issue
  \/ Return
  \/ Renew
  \/ Sweep
  \/ Advance

Spec == Init /\ [][Next]_vars

\* ----------------------------------------------------------------------
\* Failures of a notification or of a save.  A handler's try block holds the
\* writes and then the socket emit; its catch block answers 500 and undoes
\* nothing.  The sweep's try block is around its whole loop.
\* ----------------------------------------------------------------------

\* a rollback that the catch block would have to perform
AfterEmitThrows_RolledBack(B, T, r, okCode) ==
  IF r.code = okCode THEN Out(B, T, 500, "error") ELSE r

\* the outcome of a handler that reached its emit with result r (its writes
\* applied to B and T) when the emit throws: the catch block answers 500
AfterEmitThrows(B, T, r, okCode) ==
  IF r.code = okCode THEN Out(r.books, r.txs, 500, "error") ELSE r

IssueEmitThrowsStep(actor, bookId, userId, reqDue) ==
  Handled(AfterEmitThrows(books, txs,
            IssueResult(books, txs, now, actor, bookId, userId, reqDue), 201))

ReturnEmitThrowsStep(actor, txId) ==
  Handled(AfterEmitThrows(books, txs,
            ReturnResult(books, txs, now, actor, txId), 200))

RenewEmitThrowsStep(actor, txId) ==
  Handled(AfterEmitThrows(books, txs,
            RenewResult(books, txs, now, actor, txId), 200))

\* sendOverdueNotification / sendOverdueNotificationSMS: the transport's
\* failure is caught inside and reported in the returned value
SendResult(transportOk) ==
  IF transportOk THEN [threw |-> FALSE, success |-> TRUE]
  ELSE [threw |-> FALSE, success |-> FALSE]

\* checkOverdueBooks when the save of document bad throws: the documents
\* before it (in the order found) are saved, the exception leaves the loop
checkOverdueBooksSaveThrows(T, t, bad) ==
  [i \in 1..Len(T) |->
     IF i \in findOverdue(T, t) /\ i < bad THEN SweepItem(T[i], t) ELSE T[i]]

\* checkOverdueBooks when the emit for document bad throws, after its save
checkOverdueBooksEmitThrows(T, t, bad) ==
  [i \in 1..Len(T) |->
     IF i \in findOverdue(T, t) /\ i <= bad THEN SweepItem(T[i], t) ELSE T[i]]

SweepSaveThrowsStep(bad) ==
  /\ bad \in findOverdue(txs, now)
  /\ txs' = checkOverdueBooksSaveThrows(txs, now, bad)
  /\ UNCHANGED <<books, now, procs, users>>

SweepEmitThrowsStep(bad) ==
  /\ bad \in findOverdue(txs, now)
  /\ txs' = checkOverdueBooksEmitThrows(txs, now, bad)
  /\ UNCHANGED <<books, now, procs, users>>

IssueEmitThrows ==
  \E actor \in {a \in UserIds : Role(a) = "admin"}, bookId \in BookIds, userId \in UserIds,
     reqDue \in BodyDues :
    IssueEmitThrowsStep(actor, bookId, userId, reqDue)

ReturnEmitThrows ==
  \E actor \in {a \in UserIds : Role(a) = "admin"}, txId \in 1..MaxTx : ReturnEmitThrowsStep(actor, txId)

RenewEmitThrows ==
  \E actor \in UserIds, txId \in 1..MaxTx : RenewEmitThrowsStep(actor, txId)

SweepSaveThrows == \E bad \in 1..MaxTx : SweepSaveThrowsStep(bad)

SweepEmitThrows == \E bad \in 1..MaxTx : SweepEmitThrowsStep(bad)

NextFaults ==
  \/ Next
  \/ IssueEmitThrows
  \/ ReturnEmitThrows
  \/ RenewEmitThrows
  \/ SweepSaveThrows
  \/ SweepEmitThrows

SpecFaults == Init /\ [][NextFaults]_vars

\* ------------------------------------------------- DELETE /account
\* the signed-in user deactivates their own account; passwordValid is the
\* outcome of user.comparePassword(password)
DeactivateAccountResult(U, T, actor, passwordValid) ==
  LET user == U[actor] IN
  IF ~passwordValid THEN U
  ELSE IF findUserActiveTransactions(T, actor) # {} THEN U
  ELSE [U EXCEPT ![actor] = Save(U[actor], user, [user EXCEPT !.isActive = FALSE])]

DeactivateAccount ==
  \E actor \in UserIds, passwordValid \in BOOLEAN :
    /\ users' = DeactivateAccountResult(users, txs, actor, passwordValid)
    /\ UNCHANGED <<books, txs, now, procs>>

\* the lifecycle together with account deactivation
NextAccounts ==
  \/ Next
  \/ DeactivateAccount

SpecAccounts == Init /\ [][NextAccounts]_vars

\* ----------------------------------------------------------------------
\* Account verification: the verify and resend handlers, the token cleanup
\* job and the clock.
\* ----------------------------------------------------------------------
HandledU(r) ==
  /\ users' = r.users
  /\ UNCHANGED <<books, txs, now, procs>>

\* the tokens a request body may carry (Undef: the field is absent)
EmailTokens ==
  {Undef} \cup {FreshEmailToken(u, n) : u \in UserIds, n \in 0..MaxIssued}

OtpInputs == {Undef} \cup OtpValues

VerifyEmailStep(token) == HandledU(VerifyEmailResult(users, now, token))

VerifyPhoneStep(phone, otp) ==
  HandledU(VerifyPhoneResult(users, now, phone, otp))

ResendEmailStep(email) ==
  /\ email \in UserIds => users[email].issued <= MaxIssued
  /\ HandledU(ResendEmailResult(users, now, email))

ResendPhoneStep(phone, otp) ==
  HandledU(ResendPhoneResult(users, now, phone, otp))

VerifyEmail == \E token \in EmailTokens : VerifyEmailStep(token)

VerifyPhone ==
  \E phone \in UserIds, otp \in OtpInputs : VerifyPhoneStep(phone, otp)

ResendEmail == \E email \in UserIds \cup {GhostId} : ResendEmailStep(email)

ResendPhone ==
  \E phone \in UserIds \cup {GhostId}, otp \in OtpValues :
    ResendPhoneStep(phone, otp)

CleanupExpiredTokens ==
  /\ users' = cleanupExpiredTokens(users, now)
  /\ UNCHANGED <<books, txs, now, procs>>

Tick ==
  /\ now < MaxVerifyNow
  /\ now' = now + 1
  /\ UNCHANGED <<books, txs, procs, users>>

NextVerify ==
  \/ VerifyEmail
  \/ VerifyPhone
  \/ ResendEmail
  \/ ResendPhone
  \/ CleanupExpiredTokens
  \/ Tick

SpecVerify == Init /\ [][NextVerify]_vars

\* ----------------------------------------------------------------------
\* One member borrowing up to and past the borrow limit: an admin issues,
\* renews and returns that member's loans of one book with enough copies.
\* ----------------------------------------------------------------------
CapAdmin == CHOOSE a \in UserIds : Role(a) = "admin"
CapUser == CHOOSE u \in UserIds : Role(u) # "admin"

CapCreateBook == CreateBookStep(CapAdmin, MaxLoans)

CapIssue ==
  \E bookId \in BookIds :
    HandledUpTo(IssueResult(books, txs, now, CapAdmin, bookId, CapUser, Undef),
                MaxLoans)

CapReturn ==
  \E txId \in 1..MaxLoans :
    HandledUpTo(ReturnResult(books, txs, now, CapAdmin, txId), MaxLoans)

CapRenew ==
  \E txId \in 1..MaxLoans :
    HandledUpTo(RenewResult(books, txs, now, CapUser, txId), MaxLoans)

NextCap ==
  \/ CapCreateBook
  \/ CapIssue
  \/ CapReturn
  \/ CapRenew
  \/ Sweep
  \/ AdvanceShort

SpecCap == Init /\ [][NextCap]_vars

\* ----------------------------------------------------------------------
\* The same handlers with requests in flight together.  Node runs a handler
\* up to its next await; each action below is one such stretch, ending at
\* the database call it awaits.  A document loaded by a find is a private
\* copy (bookOrig, txOrig); the handler's changes to it reach the collection
\* only when its save is applied.
\* ----------------------------------------------------------------------

\* the slot once the handler has responded: the request, its response code
\* and, for an issue, the availableCopies it read
Reply(kind, code, txId, bookId, seen) ==
  [pc |-> "done", kind |-> kind, code |-> code, txId |-> txId,
   bookId |-> bookId, seen |-> seen]

SetProc(p, r) == procs' = [procs EXCEPT ![p] = r]

\* issue requests that may still create a transaction
IssuesInFlight ==
  Cardinality({p \in Slots : procs[p].pc \in
                 {"i_user", "i_overdue", "i_active", "i_saveBook", "i_saveTx"}})

\* POST /issue: role check, then await Book.findById; at most cap
\* transactions are ever stored
IssueFindBookUpTo(cap, p, actor, bookId, userId) ==
  /\ procs[p].pc = "idle"
  /\ Len(txs) + IssuesInFlight < cap
  /\ IF Role(actor) # "admin"
       THEN SetProc(p, Reply("issue", 403, 0, GhostId, Undef))
       ELSE SetProc(p, [pc |-> "i_user", bookId |-> bookId, userId |-> userId,
                        bookOrig |-> FindBook(books, bookId)])
  /\ UNCHANGED <<books, txs, now, users>>

IssueFindBook(p, actor, bookId, userId) ==
  IssueFindBookUpTo(MaxTx, p, actor, bookId, userId)

\* the response of an issue that stops at one of its checks
IssueReply(r, code) ==
  Reply("issue", code, 0, r.bookId, r.bookOrig.availableCopies)

\* await User.findById; the checks on the two documents
IssueFindUser(p) ==
  LET r == procs[p] IN
  /\ r.pc = "i_user"
  /\ IF ~r.bookOrig.exists THEN SetProc(p, IssueReply(r, 404))
     ELSE IF r.userId \notin UserIds THEN SetProc(p, IssueReply(r, 404))
     ELSE IF ~canBorrow(r.bookOrig) THEN SetProc(p, IssueReply(r, 400))
     ELSE SetProc(p, [r EXCEPT !.pc = "i_overdue"])
  /\ UNCHANGED <<books, txs, now, users>>

\* await Transaction.find({user, status: 'overdue'})
IssueFindOverdue(p) ==
  LET r == procs[p] IN
  /\ r.pc = "i_overdue"
  /\ IF UserOverdue(txs, r.userId) # {} THEN SetProc(p, IssueReply(r, 400))
     ELSE SetProc(p, [r EXCEPT !.pc = "i_active"])
  /\ UNCHANGED <<books, txs, now, users>>

\* await Transaction.find({user, status in active, overdue}); new
\* Transaction(...) at t0 and book.borrowBook() up to its save
IssueFindActive(p) ==
  LET r == procs[p]
      borrowed == BookBorrowBook(r.bookOrig)
  IN
  /\ r.pc = "i_active"
  /\ IF Cardinality(findUserActiveTransactions(txs, r.userId)) >= BorrowLimit
       THEN SetProc(p, IssueReply(r, 400))
     ELSE IF ~borrowed.ok \/ ~BookValid(borrowed.doc)
       THEN SetProc(p, IssueReply(r, 500))
     ELSE SetProc(p, [pc |-> "i_saveBook", bookId |-> r.bookId,
                      userId |-> r.userId, bookOrig |-> r.bookOrig,
                      t0 |-> now])
  /\ UNCHANGED <<books, txs, now, users>>

\* the book's save is applied; transaction.save() starts
IssueSaveBook(p) ==
  LET r == procs[p]
      b == r.bookId
  IN
  /\ r.pc = "i_saveBook"
  /\ books' = [books EXCEPT
                 ![b] = Save(books[b], r.bookOrig, BookBorrowBook(r.bookOrig).doc)]
  /\ SetProc(p, [r EXCEPT !.pc = "i_saveTx"])
  /\ UNCHANGED <<txs, now, users>>

\* the transaction's save is applied; 201
IssueSaveTx(p) ==
  LET r == procs[p]
      doc == NewTransaction(r.userId, r.bookId, r.t0 + LoanPeriod, r.t0)
      saved == TxPreSave(doc, TRUE, now)
  IN
  /\ r.pc = "i_saveTx"
  /\ IF ~TxValid(saved)
       THEN UNCHANGED txs /\ SetProc(p, IssueReply(r, 500))
       ELSE /\ txs' = Append(txs, saved)
            /\ SetProc(p, Reply("issue", 201, Len(txs) + 1, r.bookId,
                                r.bookOrig.availableCopies))
  /\ UNCHANGED <<books, now, users>>

\* POST /return: role check, await Transaction.findById().populate(),
\* transaction.returnBook() at t0 up to its save
ReturnFind(p, actor, txId) ==
  LET tx == txs[txId]
      ret == TxReturnBook(tx, now)
  IN
  /\ procs[p].pc = "idle"
  /\ IF Role(actor) # "admin"
       THEN SetProc(p, Reply("return", 403, 0, GhostId, Undef))
     ELSE IF txId \notin TxIds
       THEN SetProc(p, Reply("return", 404, 0, GhostId, Undef))
     ELSE IF tx.status = "returned"
       THEN SetProc(p, Reply("return", 400, txId, tx.book, Undef))
     ELSE IF ~ret.ok THEN SetProc(p, Reply("return", 500, txId, tx.book, Undef))
     ELSE SetProc(p, [pc |-> "r_saveTx", txId |-> txId, txOrig |-> tx,
                      t0 |-> now,
                      bookOrig |-> PopulateBookSelected(books[tx.book])])
  /\ UNCHANGED <<books, txs, now, users>>

\* the transaction's save is applied; transaction.book.returnBook() runs on
\* the populated document (its own save is applied in the same step)
ReturnSaveTx(p) ==
  LET r == procs[p]
      saved == TxPreSave(TxReturnBook(r.txOrig, r.t0).doc, FALSE, now)
      back == BookReturnBook(r.bookOrig)
      b == r.txOrig.book
  IN
  /\ r.pc = "r_saveTx"
  /\ IF ~TxValid(saved)
       THEN /\ UNCHANGED <<books, txs>>
            /\ SetProc(p, Reply("return", 500, r.txId, b, Undef))
       ELSE /\ txs' = [txs EXCEPT ![r.txId] = Save(txs[r.txId], r.txOrig, saved)]
            /\ IF back.ok
                 THEN /\ books' = [books EXCEPT
                                     ![b] = Save(books[b], r.bookOrig, back.doc)]
                      /\ SetProc(p, Reply("return", 200, r.txId, b, Undef))
                 ELSE /\ UNCHANGED books
                      /\ SetProc(p, Reply("return", 500, r.txId, b, Undef))
  /\ UNCHANGED <<now, users>>

\* POST /renew: await Transaction.findById(), owner check,
\* transaction.renewBook() up to its save
RenewFind(p, actor, txId) ==
  LET tx == txs[txId]
      ren == TxRenewBook(tx)
  IN
  /\ procs[p].pc = "idle"
  /\ IF txId \notin TxIds
       THEN SetProc(p, Reply("renew", 404, 0, GhostId, Undef))
     ELSE IF actor # tx.user /\ Role(actor) # "admin"
       THEN SetProc(p, Reply("renew", 403, 0, GhostId, Undef))
     ELSE IF ~ren.ok THEN SetProc(p, Reply("renew", 500, txId, tx.book, Undef))
     ELSE SetProc(p, [pc |-> "n_save", txId |-> txId, txOrig |-> tx])
  /\ UNCHANGED <<books, txs, now, users>>

\* the renewal's save is applied
RenewSave(p) ==
  LET r == procs[p]
      saved == TxPreSave(TxRenewBook(r.txOrig).doc, FALSE, now)
      code == IF TxValid(saved) THEN 200 ELSE 500
  IN
  /\ r.pc = "n_save"
  /\ IF TxValid(saved)
       THEN txs' = [txs EXCEPT ![r.txId] = Save(txs[r.txId], r.txOrig, saved)]
       ELSE UNCHANGED txs
  /\ SetProc(p, Reply("renew", code, r.txId, r.txOrig.book, Undef))
  /\ UNCHANGED <<books, now, users>>

\* checkOverdueBooks: await Transaction.findOverdue(); snap holds the
\* documents found, todo their ids
SweepFind(p) ==
  LET found == findOverdue(txs, now) IN
  /\ procs[p].pc = "idle"
  /\ IF found = {} THEN SetProc(p, Reply("sweep", 0, 0, GhostId, Undef))
     ELSE SetProc(p, [pc |-> "s_save", snap |-> txs, todo |-> found])
  /\ UNCHANGED <<books, txs, now, users>>

\* one turn of the loop: calculateFine() and the save of the next document
SweepSave(p) ==
  LET r == procs[p]
      i == CHOOSE i \in r.todo : \A j \in r.todo : i <= j
      rest == r.todo \ {i}
  IN
  /\ r.pc = "s_save"
  /\ txs' = [txs EXCEPT
               ![i] = Save(txs[i], r.snap[i],
                           TxPreSave(calculateFine(r.snap[i], now), FALSE, now))]
  /\ IF rest = {} THEN SetProc(p, Reply("sweep", 0, 0, GhostId, Undef))
     ELSE SetProc(p, [r EXCEPT !.todo = rest])
  /\ UNCHANGED <<books, now, users>>

\* the response is delivered and the slot is free again
Finish(p) ==
  /\ procs[p].pc = "done"
  /\ SetProc(p, Idle)
  /\ UNCHANGED <<books, txs, now, users>>

NextAsync ==
  \/ \E total \in 1..MaxCopies : CreateBookStep("u1", total)
  \/ AdvanceShort
  \/ \E p \in Slots, actor \in UserIds, bookId \in BookIds, userId \in UserIds :
       IssueFindBook(p, actor, bookId, userId)
  \/ \E p \in Slots : IssueFindUser(p)
  \/ \E p \in Slots : IssueFindOverdue(p)
  \/ \E p \in Slots : IssueFindActive(p)
  \/ \E p \in Slots : IssueSaveBook(p)
  \/ \E p \in Slots : IssueSaveTx(p)
  \/ \E p \in Slots, actor \in UserIds, txId \in 1..MaxTx : ReturnFind(p, actor, txId)
  \/ \E p \in Slots : ReturnSaveTx(p)
  \/ \E p \in Slots, actor \in UserIds, txId \in 1..MaxTx : RenewFind(p, actor, txId)
  \/ \E p \in Slots : RenewSave(p)
  \/ \E p \in Slots : SweepFind(p)
  \/ \E p \in Slots : SweepSave(p)
  \/ \E p \in Slots : Finish(p)

SpecAsync == Init /\ [][NextAsync]_vars

\* issues for the member at the borrow limit, in flight together
NextCapAsync ==
  \/ CapCreateBook
  \/ \E p \in Slots, bookId \in BookIds :
       IssueFindBookUpTo(MaxLoans, p, CapAdmin, bookId, CapUser)
  \/ \E p \in Slots : IssueFindUser(p)
  \/ \E p \in Slots : IssueFindOverdue(p)
  \/ \E p \in Slots : IssueFindActive(p)
  \/ \E p \in Slots : IssueSaveBook(p)
  \/ \E p \in Slots : IssueSaveTx(p)
  \/ \E p \in Slots : Finish(p)

SpecCapAsync == Init /\ [][NextCapAsync]_vars

\* ======================================================================
\* Properties
\* ======================================================================
Admins == {a \in UserIds : Role(a) = "admin"}

\* transactions of book b that are not returned
NonReturned(T, b) ==
  {i \in 1..Len(T) : T[i].book = b /\ T[i].status # "returned"}

\* the counter of every book matches its open transactions
InSync(B, T) ==
  \A b \in BookIds :
    B[b].exists =>
      B[b].availableCopies = B[b].totalCopies - Cardinality(NonReturned(T, b))

\* a user the issue checks accept
Eligible(u) ==
  /\ UserOverdue(txs, u) = {}
  /\ Cardinality(findUserActiveTransactions(txs, u)) < BorrowLimit

\* C1: every book has 0 <= availableCopies <= totalCopies, whatever sequence
\* of create, update, issue, return and delete led to the state.
C1_InventoryBounds ==
  \A b \in BookIds :
    books[b].exists =>
      /\ 0 <= books[b].availableCopies
      /\ books[b].availableCopies <= books[b].totalCopies

\* C2: with requests handled one at a time, an issue or a return that
\* starts with availableCopies = totalCopies - (transactions not returned)
\* for every book ends with it.
C2_NoDrift ==
  [][(Issue \/ Return) /\ InSync(books, txs) => InSync(books', txs')]_vars

\* C3: an issue by an admin of an active book to an eligible user succeeds
\* while the book has an available copy, takes exactly one copy, adds one to
\* borrowCount and creates one transaction; with no copy left it is rejected
\* (400) and changes nothing.
C3_IssueCounts ==
  /\ [](\A b \in BookIds, u \in UserIds, d \in BodyDues, a \in Admins :
          books[b].exists /\ books[b].isActive /\ Eligible(u) =>
            LET r == IssueResult(books, txs, now, a, b, u, d) IN
            IF books[b].availableCopies > 0
            THEN r.code = 201
            ELSE r.code = 400 /\ r.books = books /\ r.txs = txs)
  /\ [][\A b \in BookIds, u \in UserIds, d \in BodyDues, a \in Admins :
          /\ books[b].exists /\ books[b].isActive /\ Eligible(u)
          /\ books[b].availableCopies > 0
          /\ IssueStep(a, b, u, d)
          => /\ books'[b].availableCopies = books[b].availableCopies - 1
             /\ books'[b].borrowCount = books[b].borrowCount + 1
             /\ Len(txs') = Len(txs) + 1]_vars

\* C4: two issue requests in flight together that both read the book with
\* exactly one available copy never both succeed.
C4_OneCopyOneIssue ==
  \A p \in Slots, q \in Slots :
    ~ /\ p # q
      /\ procs[p].pc = "done" /\ procs[p].kind = "issue" /\ procs[p].code = 201
      /\ procs[q].pc = "done" /\ procs[q].kind = "issue" /\ procs[q].code = 201
      /\ procs[p].bookId = procs[q].bookId
      /\ procs[p].seen = 1
      /\ procs[q].seen = 1

\* C5: a return by an admin of a transaction that is not returned succeeds
\* (200), leaves the transaction returned with a return date, and leaves the
\* book with exactly one more available copy, at most totalCopies.
C5_ReturnEffect ==
  /\ [](\A t \in TxIds, a \in Admins :
          txs[t].status # "returned" =>
            ReturnResult(books, txs, now, a, t).code = 200)
  /\ [][\A t \in TxIds, a \in Admins :
          txs[t].status # "returned" /\ ReturnStep(a, t) =>
            /\ txs'[t].status = "returned"
            /\ txs'[t].returnDate # Null
            /\ books'[txs[t].book].availableCopies
                 = books[txs[t].book].availableCopies + 1
            /\ books'[txs[t].book].availableCopies
                 <= books'[txs[t].book].totalCopies]_vars

\* C6: a return after the due date leaves fineAmount = ceil((now - dueDate)
\* / 1 day) x 1, whether the transaction was overdue or still active; a
\* return on or before the due date leaves fineAmount as it was.
C6_FineAtReturn ==
  [][\A t \in TxIds, a \in Admins :
       txs[t].status # "returned" /\ ReturnStep(a, t) =>
         IF txs[t].dueDate < now
         THEN txs'[t].fineAmount = CeilDays(now - txs[t].dueDate) * FinePerDay
         ELSE txs'[t].fineAmount = txs[t].fineAmount]_vars

\* C7: the overdue sweep leaves every transaction that was active and past
\* its due date overdue with fineAmount = ceil((now - dueDate) / 1 day).
C7_SweepFine ==
  [][Sweep =>
       \A t \in TxIds :
         txs[t].status = "active" /\ txs[t].dueDate < now =>
           /\ txs'[t].status = "overdue"
           /\ txs'[t].fineAmount
                = CeilDays(now - txs[t].dueDate) * FinePerDay]_vars

\* C8: a returned transaction is never changed again; a return of it is
\* answered 400 'already returned', and a return, a renew or a sweep leaves
\* it and the book's counters as they are.
C8_ReturnedIsTerminal ==
  /\ [](\A t \in TxIds :
          txs[t].status = "returned" =>
            /\ \A a \in Admins :
                 LET r == ReturnResult(books, txs, now, a, t) IN
                 /\ r.code = 400 /\ r.msg = "already_returned"
                 /\ r.books = books /\ r.txs = txs
            /\ \A a \in UserIds :
                 /\ ReturnResult(books, txs, now, a, t).books = books
                 /\ ReturnResult(books, txs, now, a, t).txs = txs
                 /\ RenewResult(books, txs, now, a, t).code # 200
                 /\ RenewResult(books, txs, now, a, t).books = books
                 /\ RenewResult(books, txs, now, a, t).txs = txs
            /\ checkOverdueBooks(txs, now)[t] = txs[t])
  /\ [][\A t \in TxIds :
          txs[t].status = "returned" =>
            /\ txs'[t] = txs[t]
            /\ \A a \in UserIds :
                 ReturnStep(a, t) \/ RenewStep(a, t) \/ Sweep => books' = books]_vars

\* a transaction returned before its due date passed, and another one that a
\* sweep has since marked overdue
C8_Witness ==
  \E t \in TxIds, o \in TxIds :
    /\ txs[t].status = "returned" /\ txs[t].returnDate # Null
    /\ txs[t].returnDate < now /\ txs[t].dueDate < now
    /\ txs[o].status = "overdue"

\* C9: with a return in flight together with a renew, another return or a
\* sweep of the same transaction, a return date is only ever on a returned
\* transaction and a returned transaction stays returned.
C9_ReturnRaces ==
  /\ [](\A t \in TxIds : txs[t].returnDate # Null => txs[t].status = "returned")
  /\ [][\A t \in TxIds :
          txs[t].status = "returned" => txs'[t].status = "returned"]_vars

\* C10: with requests handled one at a time every transaction has
\* renewalCount <= 3, fineAmount >= 0, and returnDate = null exactly when its
\* status is active, overdue or renewed.
C10_TxInvariant ==
  \A t \in TxIds :
    /\ txs[t].renewalCount <= MaxRenewals
    /\ txs[t].fineAmount >= 0
    /\ (txs[t].returnDate = Null
          <=> txs[t].status \in {"active", "overdue", "renewed"})

\* one transaction renewed and since returned, another one overdue
C10_Witness ==
  \E t \in TxIds, o \in TxIds :
    /\ txs[t].status = "returned" /\ txs[t].returnDate # Null
    /\ txs[t].renewalCount > 0
    /\ txs[o].status = "overdue" /\ txs[o].returnDate = Null

\* who may renew transaction t: its user or an admin
MayRenew(a, t) == a = txs[t].user \/ Role(a) = "admin"

\* C11: a renew of an active transaction with renewalCount < 3 and a due
\* date not yet passed succeeds (200) and changes exactly renewalCount (+1),
\* dueDate (+14 days) and status ('renewed'); every other field, every other
\* transaction and the books are unchanged.
C11_RenewEffect ==
  /\ [](\A t \in TxIds, a \in UserIds :
          /\ txs[t].status = "active" /\ txs[t].renewalCount < MaxRenewals
          /\ txs[t].dueDate >= now /\ MayRenew(a, t)
          => RenewResult(books, txs, now, a, t).code = 200)
  /\ [][\A t \in TxIds, a \in UserIds :
          /\ txs[t].status = "active" /\ txs[t].renewalCount < MaxRenewals
          /\ txs[t].dueDate >= now /\ MayRenew(a, t)
          /\ RenewStep(a, t)
          => /\ txs' = [txs EXCEPT
                          ![t] = [txs[t] EXCEPT
                                    !.renewalCount = txs[t].renewalCount + 1,
                                    !.dueDate = txs[t].dueDate + LoanPeriod,
                                    !.status = "renewed"]]
             /\ books' = books]_vars

\* a transaction renewed once: due two loan periods after it was borrowed
C11_Witness ==
  \E t \in TxIds :
    /\ txs[t].status = "renewed" /\ txs[t].renewalCount = 1
    /\ txs[t].dueDate = txs[t].borrowDate + 2 * LoanPeriod
    /\ txs[t].returnDate = Null /\ txs[t].fineAmount = 0

\* C12: while a transaction is not past due, a renew of it succeeds as long
\* as renewalCount < 3, whether it was renewed before or not, and adds one to
\* renewalCount and 14 days to dueDate; with renewalCount = 3 it is rejected
\* and changes nothing.
C12_ThreeRenewals ==
  \A t \in TxIds, a \in Admins :
    txs[t].status \in {"active", "renewed"} /\ txs[t].dueDate >= now =>
      LET r == RenewResult(books, txs, now, a, t) IN
      IF txs[t].renewalCount < MaxRenewals
      THEN /\ r.code = 200
           /\ r.txs[t].renewalCount = txs[t].renewalCount + 1
           /\ r.txs[t].dueDate = txs[t].dueDate + LoanPeriod
      ELSE r.code # 200 /\ r.txs = txs

\* C13: a renew of a transaction that is not returned and whose due date has
\* passed is rejected and changes nothing, whether or not a sweep has marked
\* it overdue.
C13_NoRenewPastDue ==
  \A t \in TxIds, a \in UserIds :
    txs[t].status # "returned" /\ txs[t].dueDate < now =>
      LET r == RenewResult(books, txs, now, a, t) IN
      r.code # 200 /\ r.txs = txs /\ r.books = books

\* C14: a sweep leaves no transaction that was 'renewed' with its due date in
\* the past in status 'renewed': it becomes overdue.
C14_RenewedBecomesOverdue ==
  [][Sweep =>
       \A t \in TxIds :
         txs[t].status = "renewed" /\ txs[t].dueDate < now =>
           txs'[t].status = "overdue"]_vars

\* the transactions of user u that a sweep has marked overdue
OverdueOf(u) == {t \in TxIds : txs[t].user = u /\ txs[t].status = "overdue"}

\* C15: an issue for a user who has an overdue transaction is rejected,
\* creates no transaction and changes no book (400 when it is an admin's
\* request for an existing book); a return of the overdue transaction leaves
\* it returned and the user's other transactions as they were, and an issue
\* for a user with no overdue transaction, under the borrow limit, of a book
\* that can be borrowed succeeds.
C15_OverdueBlocksIssue ==
  /\ [](\A u \in UserIds, b \in BookIds \cup {GhostId}, a \in UserIds,
           d \in BodyDues :
          LET r == IssueResult(books, txs, now, a, b, u, d) IN
          IF OverdueOf(u) # {}
          THEN /\ r.code # 201 /\ r.books = books /\ r.txs = txs
               /\ Role(a) = "admin" /\ FindBook(books, b).exists => r.code = 400
          ELSE /\ Role(a) = "admin" /\ canBorrow(FindBook(books, b))
               /\ Cardinality(findUserActiveTransactions(txs, u)) < BorrowLimit
               => r.code = 201 /\ Len(r.txs) = Len(txs) + 1)
  /\ [][\A t \in TxIds, a \in Admins :
          txs[t].status = "overdue" /\ ReturnStep(a, t) =>
            /\ txs'[t].status = "returned"
            /\ \A o \in TxIds \ {t} : txs'[o] = txs[o]]_vars

\* a user with an overdue transaction while the book has a copy to lend
C15_Witness ==
  \E u \in UserIds, b \in BookIds :
    /\ OverdueOf(u) # {}
    /\ canBorrow(books[b])

\* C20: a successful issue creates an active transaction whose dueDate is
\* the requested due date when the body carries one, and borrowDate + 14
\* days when it does not.
C20_RequestedDueDate ==
  [][\A a \in Admins, b \in BookIds, u \in UserIds, d \in BodyDues :
       IssueStep(a, b, u, d) /\ Len(txs') = Len(txs) + 1 =>
         LET new == txs'[Len(txs')] IN
         /\ new.status = "active"
         /\ new.dueDate = IF d # Undef THEN d ELSE new.borrowDate + LoanPeriod]_vars

\* C19: an issue for a user who does not exist or whose account is
\* deactivated (isActive = false) is rejected, creates no transaction and
\* changes no book.
C19_InactiveUserNoIssue ==
  \A u \in UserIds \cup {GhostId}, b \in BookIds, a \in Admins, d \in BodyDues :
    (u \notin UserIds \/ ~users[u].isActive) /\ users[a].isActive =>
      LET r == IssueResult(books, txs, now, a, b, u, d) IN
      r.code # 201 /\ r.books = books /\ r.txs = txs

\* transactions of user u that are not returned
UserNonReturned(T, u) ==
  {i \in 1..Len(T) : T[i].user = u /\ T[i].status # "returned"}

\* C16: with requests handled one at a time no user ever has more than 5
\* transactions in status active or overdue, and an issue for a user who has
\* 5 of them is rejected (400) and changes nothing.
C16_BorrowLimit ==
  \A u \in UserIds :
    /\ Cardinality(findUserActiveTransactions(txs, u)) <= BorrowLimit
    /\ Cardinality(findUserActiveTransactions(txs, u)) >= BorrowLimit =>
         \A a \in Admins, b \in BookIds, d \in BodyDues :
           LET r == IssueResult(books, txs, now, a, b, u, d) IN
           /\ r.code = 400 /\ r.books = books /\ r.txs = txs
           /\ canBorrow(books[b]) /\ UserOverdue(txs, u) = {}
              => r.msg = "limit_reached"

\* a user with exactly 5 active transactions, none overdue, while the book
\* still has a copy to lend
C16_Witness ==
  \E u \in UserIds, b \in BookIds :
    /\ Cardinality(findUserActiveTransactions(txs, u)) = BorrowLimit
    /\ UserOverdue(txs, u) = {}
    /\ canBorrow(books[b])

\* C17: with requests handled one at a time no user ever has more than 5
\* transactions that are not returned (active, overdue or renewed).
C17_NonReturnedCap ==
  \A u \in UserIds : Cardinality(UserNonReturned(txs, u)) <= BorrowLimit

\* C18: with issue requests for one user in flight together, the user's
\* active and overdue transactions never number more than 5.
C18_LimitUnderRace ==
  \A u \in UserIds :
    Cardinality(findUserActiveTransactions(txs, u)) <= BorrowLimit

\* C21: issue and return are all-or-nothing: a request answered with an
\* error leaves every book and every transaction as it was, and in every
\* outcome the book's counter changes exactly when the transaction is
\* created (issue) or closed (return).
C21_AllOrNothing ==
  /\ \A a \in UserIds, b \in BookIds \cup {GhostId},
        u \in UserIds \cup {GhostId}, d \in BodyDues :
       LET r == IssueResult(books, txs, now, a, b, u, d) IN
       /\ r.code # 201 => r.books = books /\ r.txs = txs
       /\ r.books # books <=> r.txs # txs
  /\ \A a \in UserIds, t \in TxIds :
       LET r == ReturnResult(books, txs, now, a, t) IN
       /\ r.code # 200 => r.books = books /\ r.txs = txs
       /\ r.books # books <=> r.txs # txs

\* C22: the overdue sweep is idempotent: a second run right after a run, at
\* the same time, changes no transaction and emits no 'bookOverdue' event.
C22_SweepIdempotent ==
  LET once == checkOverdueBooks(txs, now) IN
  /\ checkOverdueBooks(once, now) = once
  /\ bookOverdueEvents(once, now) = {}

\* a sweep has marked a transaction overdue and a run now finds nothing
C22_Witness ==
  /\ \E t \in TxIds : txs[t].status = "overdue" /\ txs[t].dueDate < now
  /\ findOverdue(txs, now) = {}
  /\ checkOverdueBooks(txs, now) = txs

\* C23: an issue or a return requested by an actor who is not an admin, and
\* a renew requested by an actor who is neither the borrower nor an admin, is
\* answered 403 and changes no book and no transaction.
C23_RoleChecks ==
  \A a \in UserIds :
    Role(a) # "admin" =>
      /\ \A b \in BookIds \cup {GhostId}, u \in UserIds \cup {GhostId},
            d \in BodyDues :
           LET r == IssueResult(books, txs, now, a, b, u, d) IN
           r.code = 403 /\ r.books = books /\ r.txs = txs
      /\ \A t \in 1..(MaxTx + 1) :
           LET r == ReturnResult(books, txs, now, a, t) IN
           r.code = 403 /\ r.books = books /\ r.txs = txs
      /\ \A t \in TxIds :
           a # txs[t].user =>
             LET r == RenewResult(books, txs, now, a, t) IN
             r.code = 403 /\ r.books = books /\ r.txs = txs

\* a member who is not the borrower of a renewable transaction, while the
\* book has a copy an issue could take and an open transaction a return
\* could close
C23_Witness ==
  \E a \in UserIds, t \in TxIds, b \in BookIds :
    /\ Role(a) # "admin" /\ a # txs[t].user
    /\ txs[t].status = "active" /\ txs[t].renewalCount < MaxRenewals
    /\ canBorrow(books[b])

\* C24: an issue by an admin that fails several preconditions reports the
\* first failure in the order: book missing or inactive, user missing or
\* inactive, no available copy, user has an overdue transaction, user at the
\* borrow limit.
C24_PreconditionOrder ==
  \A a \in Admins, b \in BookIds \cup {GhostId},
     u \in UserIds \cup {GhostId}, d \in BodyDues :
    LET r == IssueResult(books, txs, now, a, b, u, d)
        book == FindBook(books, b)
    IN
    IF ~book.exists THEN r.msg = "book_not_found"
    ELSE IF ~book.isActive THEN r.msg = "not_available"
    ELSE IF u \notin UserIds THEN r.msg = "user_not_found"
    ELSE IF ~users[u].isActive THEN r.code # 201
    ELSE IF book.availableCopies <= 0 THEN r.msg = "not_available"
    ELSE IF OverdueOf(u) # {} THEN r.msg = "has_overdue"
    ELSE IF Cardinality(findUserActiveTransactions(txs, u)) >= BorrowLimit
      THEN r.msg = "limit_reached"
    ELSE r.code = 201

\* C25: when the save of one transaction throws during a sweep, every other
\* transaction the run found is still marked overdue.
C25_SweepSurvivesFailure ==
  \A bad \in findOverdue(txs, now) :
    \A t \in findOverdue(txs, now) \ {bad} :
      checkOverdueBooksSaveThrows(txs, now, bad)[t].status = "overdue"

C26_NoOverlappingRuns ==
  \A p \in Slots, q \in Slots :
    p # q /\ procs[p].pc = "s_save" /\ procs[q].pc = "s_save" =>
      procs[p].todo \cap procs[q].todo = {}

\* C28: a run of the overdue notifier sends a notification for every
\* transaction whose status is 'overdue'.
C28_NotifierCoversOverdue ==
  \A t \in TxIds :
    txs[t].status = "overdue" => t \in sendOverdueNotifications(txs, now)

\* C29: no book and no user that is inactive is referenced by a transaction
\* whose status is active, overdue or renewed.
C29_NoOpenLoanOnInactive ==
  \A t \in TxIds :
    txs[t].status \in {"active", "overdue", "renewed"} =>
      /\ books[txs[t].book].exists /\ books[txs[t].book].isActive
      /\ users[txs[t].user].isActive

\* C30: email and phone verification are independent and token-guarded.
\* A verify request succeeds exactly when the supplied token is the one
\* stored for that channel and its expiry is still in the future; it then
\* sets only that channel's verified flag and clears that channel's token,
\* leaves the other channel and every other user as they were, and the
\* same token does not verify a second time.  A refused request changes
\* nothing.  A token replaced by a resend or purged by the cleanup job no
\* longer verifies.
EmailChannel(rec) ==
  <<rec.isEmailVerified, rec.emailVerificationToken,
    rec.emailVerificationExpires>>

PhoneChannel(rec) ==
  <<rec.isPhoneVerified, rec.phoneVerificationToken,
    rec.phoneVerificationExpires>>

C30_VerifyEmailGuarded ==
  \A token \in EmailTokens :
    LET r == VerifyEmailResult(users, now, token)
        holders == {u \in UserIds :
                      /\ users[u].emailVerificationToken = token
                      /\ users[u].emailVerificationExpires # Undef
                      /\ users[u].emailVerificationExpires > now}
    IN
    /\ (r.code = 200) <=> (holders # {})
    /\ r.code = 200 =>
         /\ r.user \in holders
         /\ EmailChannel(r.users[r.user]) = <<TRUE, Undef, Undef>>
         /\ PhoneChannel(r.users[r.user]) = PhoneChannel(users[r.user])
         /\ r.users[r.user].isActive = users[r.user].isActive
         /\ \A v \in UserIds \ {r.user} : r.users[v] = users[v]
         /\ VerifyEmailResult(r.users, now, token).code = 400
    /\ r.code # 200 => r.users = users

C30_VerifyPhoneGuarded ==
  \A phone \in UserIds, otp \in OtpInputs :
    LET r == VerifyPhoneResult(users, now, phone, otp)
        stored == /\ users[phone].phoneVerificationToken = otp
                  /\ users[phone].phoneVerificationExpires # Undef
                  /\ users[phone].phoneVerificationExpires > now
    IN
    /\ (r.code = 200) <=> stored
    /\ r.code = 200 =>
         /\ r.user = phone
         /\ PhoneChannel(r.users[phone]) = <<TRUE, Undef, Undef>>
         /\ EmailChannel(r.users[phone]) = EmailChannel(users[phone])
         /\ r.users[phone].isActive = users[phone].isActive
         /\ \A v \in UserIds \ {phone} : r.users[v] = users[v]
         /\ VerifyPhoneResult(r.users, now, phone, otp).code = 400
    /\ r.code # 200 => r.users = users

C30_ReplacedOrPurged ==
  /\ \A email \in UserIds :
       LET old == users[email].emailVerificationToken
           r == ResendEmailResult(users, now, email)
       IN (r.code = 200 /\ old # Undef) =>
            VerifyEmailResult(r.users, now, old).code = 400
  /\ \A phone \in UserIds, otp \in OtpValues :
       LET old == users[phone].phoneVerificationToken
           r == ResendPhoneResult(users, now, phone, otp)
       IN (r.code = 200 /\ old # Undef /\ old # otp) =>
            VerifyPhoneResult(r.users, now, phone, old).code = 400
  /\ LET after == cleanupExpiredTokens(users, now)
     IN \A u \in UserIds :
          /\ (users[u].emailVerificationToken # Undef
                /\ after[u].emailVerificationToken = Undef) =>
               \A t \in now..MaxVerifyNow :
                 VerifyEmailResult(after, t,
                   users[u].emailVerificationToken).code = 400
          /\ (users[u].phoneVerificationToken # Undef
                /\ after[u].phoneVerificationToken = Undef) =>
               \A t \in now..MaxVerifyNow :
                 VerifyPhoneResult(after, t, u,
                   users[u].phoneVerificationToken).code = 400

C30_VerificationGuarded ==
  /\ C30_VerifyEmailGuarded
  /\ C30_VerifyPhoneGuarded
  /\ C30_ReplacedOrPurged

\* one user verified by email with a token issued by a resend while the
\* phone channel still waits, the other user's expired tokens purged
C30_Witness ==
  \E u \in UserIds, v \in UserIds :
    /\ u # v
    /\ users[u].isEmailVerified
    /\ users[u].issued > 1
    /\ ~users[u].isPhoneVerified
    /\ users[u].phoneVerificationToken # Undef
    /\ ~users[v].isEmailVerified
    /\ users[v].emailVerificationToken = Undef
    /\ users[v].phoneVerificationToken = Undef
    /\ now > 0

====
